---- MODULE Spec2Model ----
(***************************************************************************)
(* A model of GeoNet/qsearch: the WFS request builder and year chunker     *)
(* (package wfs), the QuakeML 1.2 / SeisCompML 0.7 clients (packages       *)
(* quakeml12 and seiscompml07) and the fetch pipeline they share: one      *)
(* producer goroutine, numDownloaders fetcher goroutines, one goroutine    *)
(* closing the result channel and the caller ranging over it.              *)
(*                                                                         *)
(* Channels are unbuffered, so a send and its receive are one step.  A Go  *)
(* select with two ready cases may take either: both are actions.          *)
(***************************************************************************)
EXTENDS Integers, Sequences, FiniteSets, Bags, TLC

----------------------------------------------------------------------------
(* Bounds of the model *)

\* Size of the fetcher pool that is modelled (10 in wfs, 15 in the XML clients).
numDownloaders == 2

\* Largest End.Year() - Start.Year() of a query.
MaxYears == 2

\* Largest number of event ids handed to the XML clients' Get.
MaxIds == 2

\* Largest End.Year() - Start.Year() of a query given to writeUrls on its own.
MaxChunkYears == 4

----------------------------------------------------------------------------
(* time.Time: the wall clock fields the program reads *)

Time(y, mo, d, s, ns) == [year |-> y, month |-> mo, day |-> d, sec |-> s, nsec |-> ns]

\* The zero time.Time of a Query literal that does not set Start / End.
ZeroTime == Time(1, 1, 1, 0, 0)

Year(t) == t.year

IsLeap(y) == (y % 4 = 0 /\ y % 100 # 0) \/ y % 400 = 0

DaysIn(y, mo) ==
    IF mo = 2 THEN (IF IsLeap(y) THEN 29 ELSE 28)
    ELSE IF mo \in {4, 6, 9, 11} THEN 30 ELSE 31

\* t.AddDate(years, 0, 0): the date is normalised as time.Date does it, so
\* 29 February plus one year is 1 March.
AddDate(t, years, months, days) ==
    LET y == t.year + years
        over == t.day > DaysIn(y, t.month)
    IN  [t EXCEPT !.year = y,
                  !.month = IF over THEN t.month + 1 ELSE t.month,
                  !.day = IF over THEN t.day - DaysIn(y, t.month) ELSE t.day]

\* t1 is not after t2.
NotAfter(t1, t2) ==
    LET k1 == <<t1.year, t1.month, t1.day, t1.sec, t1.nsec>>
        k2 == <<t2.year, t2.month, t2.day, t2.sec, t2.nsec>>
    IN  \/ k1 = k2
        \/ \E j \in 1..5 : k1[j] < k2[j] /\ \A h \in 1..(j - 1) : k1[h] = k2[h]

Pad2(n) == IF n < 10 THEN "0" \o ToString(n) ELSE ToString(n)

Pad4(n) ==
    IF n < 10 THEN "000" \o ToString(n)
    ELSE IF n < 100 THEN "00" \o ToString(n)
    ELSE IF n < 1000 THEN "0" \o ToString(n) ELSE ToString(n)

\* t.Format("2006-01-02T15:04:05"): second precision, no zone designator.
Format(t) ==
    Pad4(t.year) \o "-" \o Pad2(t.month) \o "-" \o Pad2(t.day) \o "T"
        \o Pad2(t.sec \div 3600) \o ":" \o Pad2((t.sec \div 60) % 60)
        \o ":" \o Pad2(t.sec % 60)

\* fmt %v of a float64 held in tenths (61 is 6.1, -9999 is -999.9).
FormatTenths(x) ==
    LET n == IF x < 0 THEN 0 - x ELSE x
        sign == IF x < 0 THEN "-" ELSE ""
    IN  IF n % 10 = 0 THEN sign \o ToString(n \div 10)
        ELSE sign \o ToString(n \div 10) \o "." \o ToString(n % 10)

----------------------------------------------------------------------------
(* package wfs: Query and the request builder *)

wfsUrl == "http://wfs.geonet.org.nz/geonet/ows?service=WFS&version=1.0.0&request=GetFeature&typeName=geonet:quake_search_v1&outputFormat=json"

\* The "unset" values of the two numeric filters; MinMagnitude is in tenths.
UnsetPhaseCount == -999
UnsetMagnitude == -9999

Query(id, s, e, p, m, b) ==
    [EventID |-> id, Start |-> s, End |-> e,
     MinUsedPhaseCount |-> p, MinMagnitude |-> m, Bbox |-> b]

\* Mutant: the magnitude filter is appended before the phase count filter.
url_swapped(query) ==
    LET s0 == "&cql_filter=origintime>='" \o Format(query.Start)
                  \o "'+AND+origintime<='" \o Format(query.End) \o "'"
        s1 == IF query.MinMagnitude # UnsetMagnitude
              THEN s0 \o "+AND+magnitude>=" \o FormatTenths(query.MinMagnitude)
              ELSE s0
        s2 == IF query.MinUsedPhaseCount # UnsetPhaseCount
              THEN s1 \o "+AND+usedphasecount>=" \o ToString(query.MinUsedPhaseCount)
              ELSE s1
        s3 == IF query.Bbox # ""
              THEN s2 \o "+AND+BBOX(origin_geom," \o query.Bbox \o ")"
              ELSE s2
    IN  IF query.EventID # ""
        THEN wfsUrl \o "&cql_filter=publicid=='" \o query.EventID \o "'"
        ELSE wfsUrl \o s3

\* Mutant: the identifier filter is used only when no time range is set.
url_range_first(query) ==
    IF query.EventID # "" /\ query.Start = ZeroTime /\ query.End = ZeroTime
    THEN wfsUrl \o "&cql_filter=publicid=='" \o query.EventID \o "'"
    ELSE url_swapped([query EXCEPT !.EventID = ""])

\* Query.url: the query as a WFS search URL.
url(query) ==
    LET s0 == "&cql_filter=origintime>='" \o Format(query.Start)
                  \o "'+AND+origintime<='" \o Format(query.End) \o "'"
        s1 == IF query.MinUsedPhaseCount # UnsetPhaseCount
              THEN s0 \o "+AND+usedphasecount>=" \o ToString(query.MinUsedPhaseCount)
              ELSE s0
        s2 == IF query.MinMagnitude # UnsetMagnitude
              THEN s1 \o "+AND+magnitude>=" \o FormatTenths(query.MinMagnitude)
              ELSE s1
        s3 == IF query.Bbox # ""
              THEN s2 \o "+AND+BBOX(origin_geom," \o query.Bbox \o ")"
              ELSE s2
    IN  IF query.EventID # ""
        THEN wfsUrl \o "&cql_filter=publicid=='" \o query.EventID \o "'"
        ELSE wfsUrl \o s3

----------------------------------------------------------------------------
(* State *)

VARIABLES
    pkg,        \* the package whose pipeline runs: "wfs", "quakeml12", "seiscompml07" or "url"
    q,          \* wfs: the caller's Query
    eventid,    \* XML clients: the event ids handed to Get
    net,        \* XML clients: what the server answers for each event id
    a,          \* wfs producer: its copy of the query, the current chunk
    i,          \* producer: loop index
    ppc,        \* producer: "start", "loop", "last" or "exit"
    urls,       \* the target channel (urls in wfs, eventids in the XML clients)
    done,       \* TRUE once close(done) has run
    c,          \* the result channel: "open" or "closed"
    wpc,        \* fetcher w: "recv", "get", "select" or "exit"
    target,     \* fetcher w: the url / publicid it received
    r,          \* fetcher w: the response of client.Get
    result,     \* fetcher w: the result it built
    apc,        \* caller (search / Get): "range" or "returned"
    res,        \* wfs search: the named result res
    err,        \* wfs search: the named result err
    quakeml,    \* XML clients' Get: the named result
    panicked,   \* TRUE once a goroutine has panicked: the process is gone
    failed,     \* history: the errors of the fetches that failed
    emitted,    \* history: how many targets fetcher w was handed after close(done)
    after,      \* history: how many suspension points fetcher w passed after close(done)
    built,      \* request builder run on its own: the string url returned
    sent,       \* history: the chunks writeUrls has sent, as <<Start, End>> of a
    fetched,    \* history: the public ids of the features decoded before search returned
    received,   \* history: the bag of the targets whose result search / Get has received
    doc,        \* unmarshal run on its own: the body it is given
    linked,     \* unmarshal run on its own: what it returned, as a sequence of 0 or 1
    amap,       \* ArrivalMap called on what unmarshal returned: its value, as a sequence of 0 or 1
    flag,       \* main: the command line flags
    mpc         \* main: "flags" after flag.Parse, "get" at query.Get(), "fatal" after log.Fatal

\* The variables that only the runs of unmarshal and of main use.
alone == <<doc, linked, amap, flag, mpc>>

vars == <<pkg, q, eventid, net, a, i, ppc, urls, done, c, wpc, target, r,
          result, apc, res, err, quakeml, panicked, failed, emitted, after, built,
          sent, fetched, received, doc, linked, amap, flag, mpc>>

Workers == 1..numDownloaders

nil == "<nil>"

----------------------------------------------------------------------------
(* What the servers may answer *)

\* A response of client.Get: transport says whether the call itself failed
\* (then there is no response), readErr whether reading the body failed.
Response(transport, code, readErr, body) ==
    [transport |-> transport, StatusCode |-> code, readErr |-> readErr, Body |-> body]

Feature(id, mag) == [Properties |-> [PublicID |-> id, Magnitude |-> mag]]

\* A JSON body: valid says whether json.Unmarshal accepts it, Features is
\* what the decoder has filled in when it returns.
JsonBody(valid, features) == [valid |-> valid, Features |-> features]

WfsResponses ==
    { Response(FALSE, 200, FALSE, JsonBody(TRUE, <<Feature("2014p1", 41)>>)),
      Response(FALSE, 200, FALSE,
               JsonBody(TRUE, <<Feature("2014p1", 42), Feature("2014p2", 30)>>)),
      Response(FALSE, 200, FALSE, JsonBody(FALSE, <<Feature("2014p3", 10)>>)),
      Response(FALSE, 404, FALSE, JsonBody(TRUE, <<Feature("2014p404", 10)>>)),
      Response(TRUE, 0, FALSE, JsonBody(FALSE, <<>>)) }

TransportError(t) == "Get " \o t \o ": dial tcp: connection refused"
ReadError == "unexpected EOF"
StatusError(code) == "Non 200 response code: " \o ToString(code)
JsonError == "invalid character looking for beginning of value"
XmlError == "XML syntax error"

----------------------------------------------------------------------------
(* package wfs: fetcher *)

\* unmarshal: the features decoded from the JSON and the decoder's error.
wfs_unmarshal(b) == [fs |-> b.Features, err |-> IF b.valid THEN nil ELSE JsonError]

\* Mutant: the status of the response is not looked at.
wfs_fetch_nostatus(t, resp) ==
    LET e1 == IF resp.transport THEN TransportError(t)
              ELSE IF resp.readErr THEN ReadError ELSE nil
        u == wfs_unmarshal(resp.Body)
    IN  [features |-> IF e1 = nil THEN u.fs ELSE <<>>,
         err |-> IF e1 = nil THEN u.err ELSE e1]

\* The body of fetcher's loop between client.Get returning and the select:
\* the result it builds for url t from response resp.
wfs_fetch(t, resp) ==
    LET e0 == IF resp.transport THEN TransportError(t) ELSE nil
        e1 == IF e0 = nil /\ resp.readErr THEN ReadError ELSE e0
        e2 == IF e1 = nil /\ resp.StatusCode # 200
              THEN StatusError(resp.StatusCode) ELSE e1
        u == wfs_unmarshal(resp.Body)
    IN  [features |-> IF e2 = nil THEN u.fs ELSE <<>>,
         err |-> IF e2 = nil THEN u.err ELSE e2]

----------------------------------------------------------------------------
(* Go maps: nil says whether the map is the nil map, m holds the entries *)

NilMap == [nil |-> TRUE, m |-> <<>>]
MakeMap == [nil |-> FALSE, m |-> <<>>]

\* m[k] = v
Store(map, k, v) ==
    [nil |-> FALSE,
     m |-> [x \in (DOMAIN map.m) \cup {k} |-> IF x = k THEN v ELSE map.m[x]]]

Keys(map) == DOMAIN map.m

----------------------------------------------------------------------------
(* packages quakeml12 and seiscompml07: the documents *)

Magnitude(id) == [PublicID |-> id]
Pick(id) == [PublicID |-> id]

\* Arrival: Pick is the pointer set by init, an index into Event.P, 0 for nil.
Arrival(pickID) == [PickID |-> pickID, Pick |-> 0]

\* An XML document as it is on the wire: the preferred ids, the origins with
\* their arrivals and (SeisCompML) their magnitudes, the magnitudes at event
\* level (QuakeML) and the picks.
WireOrigin(id, arrivals, mags) == [PublicID |-> id, Arrivals |-> arrivals, M |-> mags]

Content(po, pm, origins, mags, picks) ==
    [PreferredOriginID |-> po, PreferredMagnitudeID |-> pm,
     O |-> origins, M |-> mags, P |-> picks]

\* valid says whether xml.Unmarshal accepts the body.
XmlBody(valid, content) == [valid |-> valid, content |-> content]

GoodOrigins ==
    << WireOrigin("o1", <<Arrival("p1"), Arrival("p9")>>, <<Magnitude("m1")>>),
       WireOrigin("o2", <<Arrival("p1")>>, <<Magnitude("m2")>>) >>

GoodContent ==
    Content("o1", "m1", GoodOrigins, <<Magnitude("m1"), Magnitude("m2")>>, <<Pick("p1")>>)

\* No preferredOriginID element.
EmptyPreferredContent == [GoodContent EXCEPT !.PreferredOriginID = ""]

\* A preferredOriginID that is the id of no origin of the document.
DanglingContent == [GoodContent EXCEPT !.PreferredOriginID = "o9"]

\* A preferredMagnitudeID that is the id of no magnitude of the document.
DanglingMagnitudeContent == [GoodContent EXCEPT !.PreferredMagnitudeID = "m9"]

XmlResponses ==
    { Response(FALSE, 200, FALSE, XmlBody(TRUE, GoodContent)),
      Response(FALSE, 200, FALSE, XmlBody(TRUE, DanglingMagnitudeContent)),
      Response(FALSE, 200, FALSE, XmlBody(TRUE, EmptyPreferredContent)),
      Response(FALSE, 200, FALSE, XmlBody(TRUE, DanglingContent)),
      Response(FALSE, 200, FALSE, XmlBody(FALSE, GoodContent)),
      Response(FALSE, 404, FALSE, XmlBody(TRUE, GoodContent)),
      Response(TRUE, 0, FALSE, XmlBody(FALSE, GoodContent)) }

\* The zero Event: var e Event.
ZeroEvent ==
    [PreferredOriginID |-> "", PreferredMagnitudeID |-> "",
     O |-> <<>>, M |-> <<>>, P |-> <<>>,
     Origins |-> NilMap, Picks |-> NilMap, Magnitudes |-> NilMap,
     PreferredOrigin |-> 0, PreferredMagnitude |-> 0]

\* xml.Unmarshal into quakeml12.Quakeml: Origin has no magnitude field, the
\* magnitudes are the magnitude elements of the event.
quakeml12_decode(content) ==
    [ZeroEvent EXCEPT
        !.PreferredOriginID = content.PreferredOriginID,
        !.PreferredMagnitudeID = content.PreferredMagnitudeID,
        !.O = [j \in 1..Len(content.O) |->
                  [PublicID |-> content.O[j].PublicID,
                   Arrivals |-> content.O[j].Arrivals]],
        !.M = content.M,
        !.P = content.P]

\* xml.Unmarshal into seiscompml07.Seiscomp: origins and picks belong to
\* EventParameters, the magnitudes are nested in the origins.
seiscompml07_decode(content) ==
    [Event |-> [ZeroEvent EXCEPT
                   !.PreferredOriginID = content.PreferredOriginID,
                   !.PreferredMagnitudeID = content.PreferredMagnitudeID],
     O |-> content.O,
     P |-> content.P]

\* A map built by: for i, x := range seq { m[x.PublicID] = &seq[i] }
PointerMap(seq) ==
    [nil |-> FALSE,
     m |-> [id \in {seq[j].PublicID : j \in 1..Len(seq)} |->
              CHOOSE j \in 1..Len(seq) :
                  /\ seq[j].PublicID = id
                  /\ \A h \in (j + 1)..Len(seq) : seq[h].PublicID # id]]

\* m[k] of a map of pointers: nil (0) when k is no key.
Lookup(map, k) == IF k \in DOMAIN map.m THEN map.m[k] ELSE 0

\* Mutant: the picks of the arrivals are not looked up.
link_unresolved(e) ==
    LET origins == PointerMap(e.O)
        po == Lookup(origins, e.PreferredOriginID)
        magnitudes == PointerMap(e.M)
        pm == Lookup(magnitudes, e.PreferredMagnitudeID)
        e1 == [e EXCEPT !.Origins = origins, !.PreferredOrigin = po,
                        !.Magnitudes = magnitudes, !.PreferredMagnitude = pm,
                        !.Picks = PointerMap(e.P)]
    IN  [panic |-> po = 0, err |-> nil, event |-> e1]

\* Mutant: the picks of the arrivals of every origin are looked up.
link_every_origin(e) ==
    LET origins == PointerMap(e.O)
        po == Lookup(origins, e.PreferredOriginID)
        magnitudes == PointerMap(e.M)
        pm == Lookup(magnitudes, e.PreferredMagnitudeID)
        picks == PointerMap(e.P)
        e1 == [e EXCEPT !.Origins = origins, !.PreferredOrigin = po,
                        !.Magnitudes = magnitudes, !.PreferredMagnitude = pm,
                        !.Picks = picks]
    IN  IF po = 0
        THEN [panic |-> TRUE, err |-> nil, event |-> e1]
        ELSE [panic |-> FALSE, err |-> nil,
              event |-> [e1 EXCEPT !.O =
                            [o \in 1..Len(e.O) |->
                                [e.O[o] EXCEPT !.Arrivals =
                                    [j \in 1..Len(e.O[o].Arrivals) |->
                                        [e.O[o].Arrivals[j] EXCEPT
                                            !.Pick = Lookup(picks, e.O[o].Arrivals[j].PickID)]]]]]]

\* The second half of init, the same in both packages: the three maps, the
\* preferred origin and magnitude and the picks of the preferred origin's
\* arrivals.  Ranging over PreferredOrigin.Arrivals dereferences
\* PreferredOrigin: a nil pointer there is a run-time panic.
link(e) ==
    LET origins == PointerMap(e.O)
        po == Lookup(origins, e.PreferredOriginID)
        magnitudes == PointerMap(e.M)
        pm == Lookup(magnitudes, e.PreferredMagnitudeID)
        picks == PointerMap(e.P)
        e1 == [e EXCEPT !.Origins = origins, !.PreferredOrigin = po,
                        !.Magnitudes = magnitudes, !.PreferredMagnitude = pm,
                        !.Picks = picks]
    IN  IF po = 0
        THEN [panic |-> TRUE, err |-> nil, event |-> e1]
        ELSE [panic |-> FALSE, err |-> nil,
              event |-> [e1 EXCEPT !.O[po].Arrivals =
                            [j \in 1..Len(e.O[po].Arrivals) |->
                                [e.O[po].Arrivals[j] EXCEPT
                                    !.Pick = Lookup(picks, e.O[po].Arrivals[j].PickID)]]]]

Failure(e, msg) == [panic |-> FALSE, err |-> msg, event |-> e]

\* Mutant: the origins are counted before the preferred ids are looked at.
quakeml12_init_origins_first(e) ==
    IF Len(e.O) = 0 THEN Failure(e, "Found no origins")
    ELSE IF e.PreferredOriginID = "" THEN Failure(e, "Empty PreferredOriginID")
    ELSE IF e.PreferredMagnitudeID = "" THEN Failure(e, "Empty PreferredMagnitudeID")
    ELSE IF Len(e.M) = 0 THEN Failure(e, "Found no magnitudes")
    ELSE link(e)

\* Quakeml.init
quakeml12_init(e) ==
    IF e.PreferredOriginID = "" THEN Failure(e, "Empty PreferredOriginID")
    ELSE IF e.PreferredMagnitudeID = "" THEN Failure(e, "Empty PreferredMagnitudeID")
    ELSE IF Len(e.O) = 0 THEN Failure(e, "Found no origins")
    ELSE IF Len(e.M) = 0 THEN Failure(e, "Found no magnitudes")
    ELSE link(e)

\* Mutant: only the magnitudes of the first origin are taken.
Flatten_first(origins) ==
    IF origins = <<>> THEN <<>> ELSE Head(origins).M

\* append(M, origin.M...) over the origins, in order.
RECURSIVE Flatten(_)
Flatten(origins) ==
    IF origins = <<>> THEN <<>> ELSE Head(origins).M \o Flatten(Tail(origins))

\* Mutant: the magnitudes are counted before the origins.
seiscompml07_init_magnitudes_first(ep) ==
    LET e == ep.Event
        e1 == [e EXCEPT !.P = ep.P, !.O = ep.O, !.M = Flatten(ep.O)]
    IN  IF e.PreferredOriginID = "" THEN Failure(e, "Empty PreferredOriginID")
        ELSE IF e.PreferredMagnitudeID = "" THEN Failure(e, "Empty PreferredMagnitudeID")
        ELSE IF Len(e1.M) = 0 THEN Failure(e1, "Found no magnitudes")
        ELSE IF Len(ep.O) = 0 THEN Failure(e, "Found no origins")
        ELSE link(e1)

\* Seiscomp.init
seiscompml07_init(ep) ==
    LET e == ep.Event
        e1 == [e EXCEPT !.P = ep.P, !.O = ep.O, !.M = Flatten(ep.O)]
    IN  IF e.PreferredOriginID = "" THEN Failure(e, "Empty PreferredOriginID")
        ELSE IF e.PreferredMagnitudeID = "" THEN Failure(e, "Empty PreferredMagnitudeID")
        ELSE IF Len(ep.O) = 0 THEN Failure(e, "Found no origins")
        ELSE IF Len(e1.M) = 0 THEN Failure(e1, "Found no magnitudes")
        ELSE link(e1)

\* Mutant: init runs on whatever the decoder left, and its error is the one
\* returned.
xml_unmarshal_always_init(p, b) ==
    IF p = "quakeml12" THEN quakeml12_init(quakeml12_decode(b.content))
    ELSE seiscompml07_init(seiscompml07_decode(b.content))

\* unmarshal of package p: decode, then init.
xml_unmarshal(p, b) ==
    IF ~b.valid THEN Failure(ZeroEvent, XmlError)
    ELSE IF p = "quakeml12" THEN quakeml12_init(quakeml12_decode(b.content))
    ELSE seiscompml07_init(seiscompml07_decode(b.content))

----------------------------------------------------------------------------
(* The pipeline both kinds of client share *)

XmlPkg == pkg \in {"quakeml12", "seiscompml07"}

\* The locals of fetcher's loop body before they are set (var b, var fs /
\* var e, r): they are declared anew in every iteration.
ZeroResponse ==
    Response(FALSE, 0, FALSE,
             IF XmlPkg THEN XmlBody(FALSE, Content("", "", <<>>, <<>>, <<>>))
             ELSE JsonBody(FALSE, <<>>))

ZeroResult ==
    IF XmlPkg THEN [event |-> ZeroEvent, publicID |-> "", err |-> nil]
    ELSE [features |-> <<>>, err |-> nil]

\* Mutant: the WaitGroup is released by the first fetcher that returns.
wg_Wait_any == \E w \in Workers : wpc[w] = "exit"

\* wg.Wait() returns: every fetcher has called wg.Done().
wg_Wait == \A w \in Workers : wpc[w] = "exit"

\* Mutant: the select of fetcher has no done case.
select_done_missing(w) == FALSE

\* The case <-done of fetcher's select is ready.
select_done(w) == done

\* Mutant: fetcher goes on with its loop when it finds done closed.
after_done_continue == "recv"

\* Where fetcher goes from the case <-done: it returns.
after_done == "exit"

\* for ... range urls finds the channel closed: fetcher returns, wg.Done().
fetcher_closed(w) ==
    /\ ~panicked
    /\ wpc[w] = "recv"
    /\ urls = "closed"
    /\ wpc' = [wpc EXCEPT ![w] = "exit"]
    /\ UNCHANGED <<alone, received, sent, fetched, pkg, q, eventid, net, a, i, ppc, urls, done, c, target, r,
                   result, apc, res, err, quakeml, panicked, failed, emitted,
                   after, built>>

\* select { case c <- result: ...; case <-done: return }, the done case.
fetcher_done(w) ==
    /\ ~panicked
    /\ wpc[w] = "select"
    /\ select_done(w)
    /\ wpc' = [wpc EXCEPT ![w] = after_done]
    /\ target' = [target EXCEPT ![w] = ""]
    /\ r' = [r EXCEPT ![w] = ZeroResponse]
    /\ result' = [result EXCEPT ![w] = ZeroResult]
    /\ UNCHANGED <<alone, received, sent, fetched, pkg, q, eventid, net, a, i, ppc, urls, done, c, apc, res,
                   err, quakeml, panicked, failed, emitted, after, built>>

\* go func() { wg.Wait(); close(c) }()
closer ==
    /\ ~panicked
    /\ c = "open"
    /\ wg_Wait
    /\ c' = "closed"
    /\ UNCHANGED <<alone, received, sent, fetched, pkg, q, eventid, net, a, i, ppc, urls, done, wpc, target, r,
                   result, apc, res, err, quakeml, panicked, failed, emitted,
                   after, built>>

\* History: fetcher w passes a suspension point; counted once done is closed.
Passed(w) == IF done THEN [after EXCEPT ![w] = @ + 1] ELSE after

\* History: fetcher w is handed a target; counted once done is closed.
Handed(w) == IF done THEN [emitted EXCEPT ![w] = @ + 1] ELSE emitted

----------------------------------------------------------------------------
(* package wfs: writeUrls, the producer *)

\* Number of year chunks before the last one.
Years == Year(q.End) - Year(q.Start)

\* The goroutine of writeUrls starts: it runs up to its first select.
writeUrls_begin ==
    /\ pkg \in {"wfs", "writeUrls"} /\ ~panicked
    /\ ppc = "start"
    /\ IF Years > 0
       THEN /\ a' = [a EXCEPT !.End = AddDate(a.Start, 1, 0, 0)]
            /\ ppc' = "loop"
       ELSE /\ a' = [a EXCEPT !.End = q.End]
            /\ ppc' = "last"
    /\ i' = 0
    /\ UNCHANGED <<alone, received, sent, fetched, pkg, q, eventid, net, urls, done, c, wpc, target, r, result,
                   apc, res, err, quakeml, panicked, failed, emitted, after, built>>

\* Mutant: the end of the chunk is moved on before the first send only.
NextChunk_stuck ==
    LET a1 == [a EXCEPT !.Start = AddDate(a.Start, 1, 0, 0)]
    IN  IF i + 1 < Years
        THEN [a |-> a1, ppc |-> "loop"]
        ELSE [a |-> [a1 EXCEPT !.End = q.End], ppc |-> "last"]

\* Mutant: the chunks after the first lose the bounding box.
NextChunk_nobbox ==
    LET a1 == [a EXCEPT !.Start = AddDate(a.Start, 1, 0, 0), !.Bbox = ""]
    IN  IF i + 1 < Years
        THEN [a |-> [a1 EXCEPT !.End = AddDate(a.End, 1, 0, 0)], ppc |-> "loop"]
        ELSE [a |-> [a1 EXCEPT !.End = q.End], ppc |-> "last"]

\* The chunk after the one just sent, and where the producer stands then.
NextChunk ==
    LET a1 == [a EXCEPT !.Start = AddDate(a.Start, 1, 0, 0)]
    IN  IF i + 1 < Years
        THEN [a |-> [a1 EXCEPT !.End = AddDate(a.End, 1, 0, 0)], ppc |-> "loop"]
        ELSE [a |-> [a1 EXCEPT !.End = q.End], ppc |-> "last"]

\* case urls <- a.url(): fetcher w receives it.  After the last send the
\* goroutine returns and the deferred close(urls) runs.
writeUrls_send(w) ==
    /\ pkg \in {"wfs", "writeUrls"} /\ ~panicked
    /\ ppc \in {"loop", "last"}
    /\ wpc[w] = "recv"
    /\ target' = [target EXCEPT ![w] = url(a)]
    /\ wpc' = [wpc EXCEPT ![w] = "get"]
    /\ emitted' = Handed(w)
    /\ after' = Passed(w)
    /\ IF ppc = "loop"
       THEN /\ a' = NextChunk.a
            /\ ppc' = NextChunk.ppc
            /\ i' = i + 1
            /\ urls' = urls
       ELSE /\ ppc' = "exit"
            /\ urls' = "closed"
            /\ UNCHANGED <<a, i>>
    /\ sent' = Append(sent, <<a.Start, a.End>>)
    /\ UNCHANGED <<alone, received, fetched, pkg, q, eventid, net, done, c, r, result, apc, res, err,
                   quakeml, panicked, failed, built>>

\* case <-done: return, and the deferred close(urls) runs.
writeUrls_done ==
    /\ pkg = "wfs" /\ ~panicked
    /\ ppc \in {"loop", "last"}
    /\ done
    /\ ppc' = "exit"
    /\ urls' = "closed"
    /\ UNCHANGED <<alone, received, sent, fetched, pkg, q, eventid, net, a, i, done, c, wpc, target, r, result,
                   apc, res, err, quakeml, panicked, failed, emitted, after, built>>

\* writeUrls run on its own: the receiver of urls, for url := range urls,
\* takes the next url without doing anything with the one it has.
urls_range(w) ==
    /\ pkg = "writeUrls"
    /\ wpc[w] = "get"
    /\ wpc' = [wpc EXCEPT ![w] = "recv"]
    /\ target' = [target EXCEPT ![w] = ""]
    /\ UNCHANGED <<alone, received, sent, fetched, pkg, q, eventid, net, a, i, ppc, urls, done, c,
                   r, result, apc, res, err, quakeml, panicked, failed, emitted,
                   after, built>>

----------------------------------------------------------------------------
(* package wfs: fetcher and search *)

\* The public ids of a sequence of features.
PublicIDs(fs) == {fs[j].Properties.PublicID : j \in 1..Len(fs)}

\* client.Get(url) returns with resp and fetcher runs up to its select.
wfs_fetcher_get(w) ==
    /\ pkg = "wfs" /\ ~panicked
    /\ wpc[w] = "get"
    /\ \E resp \in WfsResponses :
          /\ r' = [r EXCEPT ![w] = resp]
          /\ result' = [result EXCEPT ![w] = wfs_fetch(target[w], resp)]
          /\ failed' = IF wfs_fetch(target[w], resp).err # nil /\ ~done
                       THEN failed \cup {wfs_fetch(target[w], resp).err}
                       ELSE failed
          /\ fetched' = IF done THEN fetched
                        ELSE fetched \cup PublicIDs(wfs_fetch(target[w], resp).features)
    /\ wpc' = [wpc EXCEPT ![w] = "select"]
    /\ after' = Passed(w)
    /\ UNCHANGED <<alone, received, sent, pkg, q, eventid, net, a, i, ppc, urls, done, c, target, apc,
                   res, err, quakeml, panicked, emitted, built>>

\* Mutant: a feature whose public id is already in the map is dropped.
RECURSIVE StoreFeatures_keep(_, _)
StoreFeatures_keep(map, fs) ==
    IF fs = <<>> THEN map
    ELSE IF Head(fs).Properties.PublicID \in Keys(map)
    THEN StoreFeatures_keep(map, Tail(fs))
    ELSE StoreFeatures_keep(Store(map, Head(fs).Properties.PublicID, Head(fs)), Tail(fs))

\* for _, feature := range r.features { res[feature.Properties.PublicID] = feature }
RECURSIVE StoreFeatures(_, _)
StoreFeatures(map, fs) ==
    IF fs = <<>> THEN map
    ELSE StoreFeatures(Store(map, Head(fs).Properties.PublicID, Head(fs)), Tail(fs))

\* Mutant: a failed result is skipped and the loop goes on.
search_body_skip(map, rslt) ==
    IF rslt.err # nil
    THEN [res |-> map, err |-> nil, returned |-> FALSE]
    ELSE [res |-> StoreFeatures(map, rslt.features), err |-> nil, returned |-> FALSE]

\* The body of search's loop over c for one result.
search_body(map, rslt) ==
    IF rslt.err # nil
    THEN [res |-> NilMap, err |-> rslt.err, returned |-> TRUE]
    ELSE [res |-> StoreFeatures(map, rslt.features), err |-> nil, returned |-> FALSE]

\* case c <- result{fs, err} of fetcher w, received by search's range over
\* c.  When search returns, its deferred close(done) runs.
search_range(w) ==
    /\ pkg = "wfs" /\ ~panicked
    /\ apc = "range"
    /\ c = "open"
    /\ wpc[w] = "select"
    /\ wpc' = [wpc EXCEPT ![w] = "recv"]
    /\ target' = [target EXCEPT ![w] = ""]
    /\ r' = [r EXCEPT ![w] = ZeroResponse]
    /\ result' = [result EXCEPT ![w] = ZeroResult]
    /\ res' = search_body(res, result[w]).res
    /\ received' = received (+) SetToBag({target[w]})
    /\ err' = search_body(res, result[w]).err
    /\ IF search_body(res, result[w]).returned
       THEN apc' = "returned" /\ done' = TRUE
       ELSE UNCHANGED <<apc, done>>
    /\ UNCHANGED <<alone, sent, fetched, pkg, q, eventid, net, a, i, ppc, urls, c, quakeml, panicked,
                   failed, emitted, after, built>>

\* The range over c ends because c is closed: return res, nil.
search_return ==
    /\ pkg = "wfs" /\ ~panicked
    /\ apc = "range"
    /\ c = "closed"
    /\ apc' = "returned"
    /\ err' = nil
    /\ done' = TRUE
    /\ UNCHANGED <<alone, received, sent, fetched, pkg, q, eventid, net, a, i, ppc, urls, c, wpc, target, r,
                   result, res, quakeml, panicked, failed, emitted, after, built>>

----------------------------------------------------------------------------
(* packages quakeml12 and seiscompml07: fetcher and Get *)

\* The body of fetcher's loop between client.Get returning and the select.
\* defer r.Body.Close() is evaluated right after client.Get: with a
\* transport error r is nil and evaluating r.Body panics.
xml_fetch(p, publicid, resp) ==
    LET e1 == IF resp.readErr THEN ReadError ELSE nil
        e2 == IF e1 = nil /\ resp.StatusCode # 200
              THEN StatusError(resp.StatusCode) ELSE e1
        u == xml_unmarshal(p, resp.Body)
    IN  IF resp.transport
        THEN [panic |-> TRUE,
              result |-> [event |-> ZeroEvent, publicID |-> publicid,
                          err |-> TransportError(publicid)]]
        ELSE IF e2 # nil
        THEN [panic |-> FALSE,
              result |-> [event |-> ZeroEvent, publicID |-> publicid, err |-> e2]]
        ELSE [panic |-> u.panic,
              result |-> [event |-> u.event, publicID |-> publicid, err |-> u.err]]

\* Mutant: the producer moves on by two ids for every id it sends.
Get_send_skip(w) ==
    /\ XmlPkg /\ ~panicked
    /\ ppc = "loop"
    /\ i < Len(eventid)
    /\ wpc[w] = "recv"
    /\ target' = [target EXCEPT ![w] = eventid[i + 1]]
    /\ wpc' = [wpc EXCEPT ![w] = "get"]
    /\ i' = IF i + 2 <= Len(eventid) THEN i + 2 ELSE i + 1
    /\ emitted' = Handed(w)
    /\ after' = Passed(w)
    /\ UNCHANGED <<alone, received, sent, fetched, pkg, q, eventid, net, a, ppc, urls,
                   done, c, r, result, apc, res, err, quakeml, panicked, failed, built>>

\* case eventids <- e of the producer: fetcher w receives it.
Get_send(w) ==
    /\ XmlPkg /\ ~panicked
    /\ ppc = "loop"
    /\ i < Len(eventid)
    /\ wpc[w] = "recv"
    /\ target' = [target EXCEPT ![w] = eventid[i + 1]]
    /\ wpc' = [wpc EXCEPT ![w] = "get"]
    /\ i' = i + 1
    /\ emitted' = Handed(w)
    /\ after' = Passed(w)
    /\ UNCHANGED <<alone, received, sent, fetched, pkg, q, eventid, net, a, ppc, urls, done, c, r, result, apc,
                   res, err, quakeml, panicked, failed, built>>

\* The producer returns, at the end of its loop or from case <-done, and
\* the deferred close(eventids) runs.
Get_producer_return ==
    /\ XmlPkg /\ ~panicked
    /\ ppc = "loop"
    /\ i = Len(eventid) \/ done
    /\ ppc' = "exit"
    /\ urls' = "closed"
    /\ UNCHANGED <<alone, received, sent, fetched, pkg, q, eventid, net, a, i, done, c, wpc, target, r, result,
                   apc, res, err, quakeml, panicked, failed, emitted, after, built>>

\* client.Get(url + publicid) returns and fetcher runs up to its select, or
\* panics on the way.
xml_fetcher_get(w) ==
    /\ XmlPkg /\ ~panicked
    /\ wpc[w] = "get"
    /\ LET f == xml_fetch(pkg, target[w], net[target[w]])
       IN  /\ r' = [r EXCEPT ![w] = net[target[w]]]
           /\ failed' = IF f.panic \/ f.result.err # nil
                        THEN failed \cup {target[w]} ELSE failed
           /\ IF f.panic
              THEN /\ panicked' = TRUE
                   /\ UNCHANGED <<result, wpc>>
              ELSE /\ result' = [result EXCEPT ![w] = f.result]
                   /\ wpc' = [wpc EXCEPT ![w] = "select"]
                   /\ UNCHANGED panicked
    /\ after' = Passed(w)
    /\ UNCHANGED <<alone, received, sent, fetched, pkg, q, eventid, net, a, i, ppc, urls, done, c, target, apc,
                   res, err, quakeml, emitted, built>>

\* Mutant: an event without a preferred magnitude is not stored.
Get_body_resolved(map, rslt) ==
    IF rslt.err # nil \/ rslt.event.PreferredMagnitude = 0 THEN map
    ELSE Store(map, rslt.publicID, rslt.event)

\* Mutant: the event of a failed result is stored as well.
Get_body_keep(map, rslt) == Store(map, rslt.publicID, rslt.event)

\* The body of Get's loop over c for one result: a failure is logged, a
\* success is stored under its publicID.
Get_body(map, rslt) ==
    IF rslt.err # nil THEN map ELSE Store(map, rslt.publicID, rslt.event)

\* case c <- result{e, publicid, err} of fetcher w, received by Get's range.
Get_range(w) ==
    /\ XmlPkg /\ ~panicked
    /\ apc = "range"
    /\ c = "open"
    /\ wpc[w] = "select"
    /\ wpc' = [wpc EXCEPT ![w] = "recv"]
    /\ target' = [target EXCEPT ![w] = ""]
    /\ r' = [r EXCEPT ![w] = ZeroResponse]
    /\ result' = [result EXCEPT ![w] = ZeroResult]
    /\ quakeml' = Get_body(quakeml, result[w])
    /\ received' = received (+) SetToBag({target[w]})
    /\ UNCHANGED <<alone, sent, fetched, pkg, q, eventid, net, a, i, ppc, urls, done, c, apc, res,
                   err, panicked, failed, emitted, after, built>>

\* Mutant: Get returns, and closes done, without waiting for c to be closed.
Get_return_early ==
    /\ XmlPkg /\ ~panicked
    /\ apc = "range"
    /\ apc' = "returned"
    /\ done' = TRUE
    /\ UNCHANGED <<alone, received, sent, fetched, pkg, q, eventid, net, a, i, ppc, urls, c, wpc, target, r,
                   result, res, err, quakeml, panicked, failed, emitted, after, built>>

\* The range over c ends because c is closed: Get returns and its deferred
\* close(done) runs.
Get_return ==
    /\ XmlPkg /\ ~panicked
    /\ apc = "range"
    /\ c = "closed"
    /\ apc' = "returned"
    /\ done' = TRUE
    /\ UNCHANGED <<alone, received, sent, fetched, pkg, q, eventid, net, a, i, ppc, urls, c, wpc, target, r,
                   result, res, err, quakeml, panicked, failed, emitted, after, built>>

----------------------------------------------------------------------------
(* The request builder on its own *)

\* q.url() is called and its value kept.
url_call ==
    /\ pkg = "url"
    /\ built = ""
    /\ built' = url(q)
    /\ UNCHANGED <<alone, received, sent, fetched, pkg, q, eventid, net, a, i, ppc, urls, done, c, wpc, target,
                   r, result, apc, res, err, quakeml, panicked, failed, emitted,
                   after>>

----------------------------------------------------------------------------
(* unmarshal on its own *)

\* unmarshal(b) of quakeml12 or of seiscompml07 is called on doc and its
\* value kept; a panic in init is kept as such.
unmarshal_call ==
    /\ pkg \in {"quakeml12.unmarshal", "seiscompml07.unmarshal"}
    /\ linked = <<>>
    /\ linked' = <<xml_unmarshal(IF pkg = "quakeml12.unmarshal" THEN "quakeml12"
                                 ELSE "seiscompml07", doc)>>
    /\ UNCHANGED <<received, sent, fetched, doc, amap, flag, mpc, pkg, q, eventid, net, a, i, ppc,
                   urls, done, c, wpc, target, r, result, apc, res, err, quakeml,
                   panicked, failed, emitted, after, built>>

\* Origin.ArrivalMap on origin o of event e, o a pointer into e.O: one row
\* for each arrival, in the order of o.Arrivals, with the station codes and
\* the time of the arrival's pick.  a.Pick.WaveformID dereferences a.Pick,
\* and o.Arrivals dereferences o: a nil pointer there is a run-time panic.
ArrivalMap(e, o) ==
    IF o = 0 THEN [panic |-> TRUE, m |-> <<>>]
    ELSE IF \E j \in 1..Len(e.O[o].Arrivals) : e.O[o].Arrivals[j].Pick = 0
    THEN [panic |-> TRUE, m |-> <<>>]
    ELSE [panic |-> FALSE,
          m |-> [j \in 1..Len(e.O[o].Arrivals) |->
                    [Pick |-> e.P[e.O[o].Arrivals[j].Pick]]]]

\* main's e.PreferredOrigin.ArrivalMap() on an event that quakeml12 returned
\* without error.
ArrivalMap_call ==
    /\ pkg = "quakeml12.unmarshal"
    /\ linked # <<>>
    /\ ~linked[1].panic
    /\ linked[1].err = nil
    /\ amap = <<>>
    /\ amap' = <<ArrivalMap(linked[1].event, linked[1].event.PreferredOrigin)>>
    /\ UNCHANGED <<received, sent, fetched, doc, linked, flag, mpc, pkg, q, eventid, net, a, i, ppc,
                   urls, done, c, wpc, target, r, result, apc, res, err, quakeml,
                   panicked, failed, emitted, after, built>>

----------------------------------------------------------------------------
(* qsearch: how main builds the query from its flags *)

Flags(eventid_, start, end, minUsedPhaseCount, minMagnitude, bbox) ==
    [eventid |-> eventid_, start |-> start, end |-> end,
     minUsedPhaseCount |-> minUsedPhaseCount, minMagnitude |-> minMagnitude,
     bbox |-> bbox]

\* The flags nobody set: the defaults of the flag definitions.
NoFlag == Flags("", "", "", UnsetPhaseCount, UnsetMagnitude, "")

\* time.Parse(time.RFC3339, s) for the strings the model passes: a date and
\* time with a zone parse, anything else is an error.
Parse(s) ==
    IF s = "2014-01-27T03:06:25Z" THEN [err |-> nil, t |-> Time(2014, 1, 27, 11185, 0)]
    ELSE IF s = "2014-01-27T04:06:25Z" THEN [err |-> nil, t |-> Time(2014, 1, 27, 14785, 0)]
    ELSE [err |-> "parsing time " \o s, t |-> ZeroTime]

\* pidr.MatchString(s) for "^[a-z0-9]+$" on the strings the model passes.
MatchString(s) == s \in {"2014p562279"}

\* The zero value of wfs.Query: var query wfs.Query.
NoQuery == Query("", ZeroTime, ZeroTime, 0, 0, "")

\* main from flag.Parse to the call of query.Get: the query it builds, or
\* log.Fatal.  A start with an end makes a time range query whatever
\* eventid is; otherwise an eventid makes an identifier query.
main_query(f) ==
    IF ~(f.start = "" \/ f.end = "")
    THEN IF Parse(f.start).err # nil \/ Parse(f.end).err # nil
            \/ ~NotAfter(Parse(f.start).t, Parse(f.end).t)
         THEN [fatal |-> TRUE, query |-> NoQuery]
         ELSE [fatal |-> FALSE,
               query |-> Query("", Parse(f.start).t, Parse(f.end).t,
                               f.minUsedPhaseCount, f.minMagnitude, f.bbox)]
    ELSE IF f.eventid # ""
    THEN IF ~MatchString(f.eventid)
         THEN [fatal |-> TRUE, query |-> NoQuery]
         ELSE [fatal |-> FALSE,
               query |-> Query(f.eventid, ZeroTime, ZeroTime, 0, 0, "")]
    ELSE [fatal |-> FALSE, query |-> NoQuery]

main ==
    /\ pkg = "main"
    /\ mpc = "flags"
    /\ mpc' = IF main_query(flag).fatal THEN "fatal" ELSE "get"
    /\ q' = main_query(flag).query
    /\ UNCHANGED <<received, sent, fetched, doc, linked, amap, flag, pkg, eventid, net, a, i, ppc,
                   urls, done, c, wpc, target, r, result, apc, res, err, quakeml,
                   panicked, failed, emitted, after, built>>

----------------------------------------------------------------------------
(* Initial states *)

EventIDs == {"", "2014p562279"}

\* Start and End instants: a leap day, times with a sub-second part, the
\* last second of a year.
StartTimes == {Time(2012, 2, 29, 11185, 0), Time(2012, 7, 1, 0, 500)}

EndTimes ==
    {Time(2012 + y, md[1], md[2], md[3], 0) :
        y \in 0..MaxYears, md \in {<<1, 1, 0>>, <<7, 1, 14785>>, <<12, 31, 86399>>}}

MinPhaseCounts == {UnsetPhaseCount, 0, 60}
MinMagnitudes == {UnsetMagnitude, 0, 61}
Bboxes == {"", "174,-41,175,-42"}

\* The queries wfs.Query can hold: main builds the first two kinds, the
\* package's tests and other callers may set any field.
Queries ==
    {Query("2014p562279", ZeroTime, ZeroTime, 0, 0, ""), Query("", ZeroTime, ZeroTime, 0, 0, "")}
    \cup {qq \in {Query(id, s, e, p, m, b) :
                      id \in EventIDs, s \in StartTimes, e \in EndTimes,
                      p \in MinPhaseCounts, m \in MinMagnitudes, b \in Bboxes} :
            NotAfter(qq.Start, qq.End)}

\* The queries the pipeline is run on: the two that main builds without a
\* time range, time windows from a leap day with every filter set, and an
\* identifier together with the longest time window.
PipelineQueries ==
    {qq \in Queries :
        \/ qq.Start = ZeroTime
        \/ /\ qq.Start = Time(2012, 2, 29, 11185, 0)
           /\ qq.End.month # 7
           /\ \/ /\ qq.EventID = ""
                 /\ <<qq.MinUsedPhaseCount, qq.MinMagnitude, qq.Bbox>>
                       = <<60, 61, "174,-41,175,-42">>
              \/ /\ qq.EventID # ""
                 /\ Year(qq.End) = 2012 + MaxYears
                 /\ <<qq.MinUsedPhaseCount, qq.MinMagnitude, qq.Bbox>>
                       = <<UnsetPhaseCount, UnsetMagnitude, "">>}

PublicId(k) == "2014p" \o ToString(k)

InitCommon ==
    /\ i = 0
    /\ urls = "open"
    /\ done = FALSE
    /\ c = "open"
    /\ wpc = [w \in Workers |-> "recv"]
    /\ target = [w \in Workers |-> ""]
    /\ apc = "range"
    /\ err = nil
    /\ panicked = FALSE
    /\ failed = {}
    /\ emitted = [w \in Workers |-> 0]
    /\ after = [w \in Workers |-> 0]
    /\ built = ""
    /\ sent = <<>>
    /\ fetched = {}
    /\ received = EmptyBag

\* The variables of the runs of unmarshal and of main, when neither runs.
InitAlone ==
    /\ doc = XmlBody(FALSE, Content("", "", <<>>, <<>>, <<>>))
    /\ linked = <<>>
    /\ amap = <<>>
    /\ flag = NoFlag
    /\ mpc = ""

\* search has called writeUrls, started the fetchers and made res.
InitWfs ==
    /\ pkg = "wfs"
    /\ q \in PipelineQueries
    /\ a = q
    /\ ppc = "start"
    /\ eventid = <<>>
    /\ net = <<>>
    /\ r = [w \in Workers |-> ZeroResponse]
    /\ result = [w \in Workers |-> ZeroResult]
    /\ res = MakeMap
    /\ quakeml = NilMap
    /\ InitCommon
    /\ InitAlone

\* Get has started its producer and the fetchers and made the result map.
InitXml ==
    /\ pkg \in {"quakeml12", "seiscompml07"}
    /\ q = NoQuery
    /\ a = NoQuery
    /\ ppc = "loop"
    /\ \E k \in 0..MaxIds :
          /\ eventid = [j \in 1..k |-> PublicId(j)]
          /\ net \in [{PublicId(j) : j \in 1..k} -> XmlResponses]
    /\ r = [w \in Workers |-> ZeroResponse]
    /\ result = [w \in Workers |-> ZeroResult]
    /\ res = NilMap
    /\ quakeml = MakeMap
    /\ InitCommon
    /\ InitAlone

\* A query whose url is to be built.
InitUrl ==
    /\ pkg = "url"
    /\ q \in Queries
    /\ a = q
    /\ ppc = "exit"
    /\ eventid = <<>>
    /\ net = <<>>
    /\ r = [w \in Workers |-> ZeroResponse]
    /\ result = [w \in Workers |-> ZeroResult]
    /\ res = NilMap
    /\ quakeml = NilMap
    /\ InitCommon
    /\ InitAlone

\* End instants of the queries given to writeUrls on its own.
ChunkEndTimes ==
    {Time(2012 + y, md[1], md[2], md[3], 0) :
        y \in 0..MaxChunkYears, md \in {<<1, 1, 0>>, <<7, 1, 14785>>, <<12, 31, 86399>>}}

\* The filters of a query: none of them, or all three.
ChunkFilters == {<<UnsetPhaseCount, UnsetMagnitude, "">>, <<60, 61, "174,-41,175,-42">>}

\* Time windows with Start not after End, as main lets them through, and
\* the same windows in a Query that has an EventID as well, as a caller of
\* the package may build it (TestURL does).
ChunkQueries ==
    {qq \in {Query(id, s, e, f[1], f[2], f[3]) :
                id \in EventIDs, s \in StartTimes, e \in ChunkEndTimes, f \in ChunkFilters} :
        NotAfter(qq.Start, qq.End)}

\* writeUrls has been called with a done that is never closed.
InitChunks ==
    /\ pkg = "writeUrls"
    /\ q \in ChunkQueries
    /\ a = q
    /\ ppc = "start"
    /\ eventid = <<>>
    /\ net = <<>>
    /\ r = [w \in Workers |-> ZeroResponse]
    /\ result = [w \in Workers |-> ZeroResult]
    /\ res = NilMap
    /\ quakeml = NilMap
    /\ InitCommon
    /\ InitAlone

\* The pipeline variables when no pipeline runs.
InitIdle ==
    /\ q = NoQuery
    /\ a = NoQuery
    /\ ppc = "exit"
    /\ eventid = <<>>
    /\ net = <<>>
    /\ r = [w \in Workers |-> ZeroResponse]
    /\ result = [w \in Workers |-> ZeroResult]
    /\ res = NilMap
    /\ quakeml = NilMap
    /\ InitCommon

FlagValues ==
    {Flags(id, s, e, p, m, b) :
        id \in {"", "2014p562279", "2014P562279!"},
        s \in {"", "2014-01-27T03:06:25Z", "2014-01-27T04:06:25Z", "27/01/2014"},
        e \in {"", "2014-01-27T03:06:25Z", "2014-01-27T04:06:25Z", "27/01/2014"},
        p \in {UnsetPhaseCount, 60}, m \in {UnsetMagnitude, 61}, b \in Bboxes}

\* flag.Parse has returned.
InitMain ==
    /\ pkg = "main"
    /\ flag \in FlagValues
    /\ mpc = "flags"
    /\ doc = XmlBody(FALSE, Content("", "", <<>>, <<>>, <<>>))
    /\ linked = <<>>
    /\ amap = <<>>
    /\ InitIdle

\* Origins of which only the second one carries magnitudes.
LateOrigins ==
    << WireOrigin("o1", <<Arrival("p1")>>, <<>>),
       WireOrigin("o2", <<>>, <<Magnitude("m2"), Magnitude("m1")>>) >>

\* Origins without arrivals and without magnitudes.
BareOrigins == << WireOrigin("o1", <<>>, <<>>), WireOrigin("o2", <<>>, <<>>) >>

\* The documents unmarshal is given: every combination of a missing, a
\* resolving and a dangling preferred id with no origins, origins, no
\* magnitudes, magnitudes, and picks in three arrangements.
Documents ==
    {XmlBody(valid, Content(po, pm, os, ms, ps)) :
        valid \in BOOLEAN,
        po \in {"", "o1", "o9"},
        pm \in {"", "m1", "m9"},
        os \in {<<>>, GoodOrigins, BareOrigins, LateOrigins},
        ms \in {<<>>, <<Magnitude("m1"), Magnitude("m2")>>},
        ps \in {<<>>, <<Pick("p1")>>, <<Pick("p2"), Pick("p1"), Pick("p1")>>}}

\* unmarshal is about to be called on a document.
InitLink ==
    /\ pkg \in {"quakeml12.unmarshal", "seiscompml07.unmarshal"}
    /\ doc \in Documents
    /\ linked = <<>>
    /\ amap = <<>>
    /\ flag = NoFlag
    /\ mpc = ""
    /\ InitIdle

Init == InitWfs \/ InitXml

----------------------------------------------------------------------------
(* Specifications *)

\* The steps of the pipeline that are the same code in the three packages.
NextShared ==
    \/ \E w \in Workers : fetcher_closed(w)
    \/ \E w \in Workers : fetcher_done(w)
    \/ closer

\* The steps of wfs.Query.search and its goroutines.
NextWfs ==
    \/ writeUrls_begin
    \/ \E w \in Workers : writeUrls_send(w)
    \/ writeUrls_done
    \/ \E w \in Workers : wfs_fetcher_get(w)
    \/ \E w \in Workers : search_range(w)
    \/ search_return

\* The steps of quakeml12.Get / seiscompml07.Get and their goroutines.
NextXml ==
    \/ \E w \in Workers : Get_send(w)
    \/ Get_producer_return
    \/ \E w \in Workers : xml_fetcher_get(w)
    \/ \E w \in Workers : Get_range(w)
    \/ Get_return

Next == NextShared \/ NextWfs \/ NextXml

\* Both pipelines, every interleaving.
Spec == Init /\ [][Next]_vars

\* The goroutines of search: the producer, fetcher w, the closer, the caller.
WfsProducer == writeUrls_begin \/ (\E w \in Workers : writeUrls_send(w)) \/ writeUrls_done
WfsFetcher(w) == fetcher_closed(w) \/ wfs_fetcher_get(w) \/ fetcher_done(w)
WfsCaller == (\E w \in Workers : search_range(w)) \/ search_return

\* The queries of the fair runs: the zero query of main, and the time
\* windows from the leap day to the last second of the same year and of
\* the year after the next, which give one chunk and three chunks.
LiveQueries ==
    {qq \in PipelineQueries :
        /\ qq.EventID = ""
        /\ \/ qq.Start = ZeroTime
           \/ qq.End.month = 12 /\ Year(qq.End) - Year(qq.Start) \in {0, 2}}

InitLive == InitWfs /\ q \in LiveQueries

\* The strict pipeline under Go's scheduler: a goroutine that can take a
\* step eventually takes one, and every client.Get eventually returns.
LiveWfs ==
    /\ InitLive
    /\ [][NextShared \/ NextWfs]_vars
    /\ WF_vars(WfsProducer)
    /\ \A w \in Workers : WF_vars(WfsFetcher(w))
    /\ WF_vars(closer)
    /\ WF_vars(WfsCaller)

\* The goroutines of Get: the producer, fetcher w, the caller.  The case
\* <-done of fetcher's select is left out of the fair runs: done is closed
\* by the deferred close of Get, after every fetcher has returned.
XmlProducer == (\E w \in Workers : Get_send(w)) \/ Get_producer_return
XmlFetcher(w) == fetcher_closed(w) \/ xml_fetcher_get(w)
XmlCaller == (\E w \in Workers : Get_range(w)) \/ Get_return

\* What the server answers in the fair runs: a document that links, one
\* that init rejects, a 404 and a transport error.
LiveXmlResponses ==
    {resp \in XmlResponses :
        \/ resp.transport
        \/ resp.StatusCode = 404
        \/ resp.Body.valid /\ resp.Body.content \in {GoodContent, EmptyPreferredContent}}

InitLiveXml == InitXml /\ \A j \in 1..Len(eventid) : net[eventid[j]] \in LiveXmlResponses

NextLiveXml ==
    \/ \E w \in Workers : fetcher_closed(w)
    \/ closer
    \/ NextXml

\* The tolerant pipeline under Go's scheduler: a goroutine that can take a
\* step eventually takes one, and every client.Get eventually returns.
LiveXml ==
    /\ InitLiveXml
    /\ [][NextLiveXml]_vars
    /\ WF_vars(XmlProducer)
    /\ \A w \in Workers : WF_vars(XmlFetcher(w))
    /\ WF_vars(closer)
    /\ WF_vars(XmlCaller)

\* The request builder applied to every query of Queries.
SpecUrl == InitUrl /\ [][url_call]_vars

\* unmarshal of both packages applied to every document of Documents.
SpecLink == InitLink /\ [][unmarshal_call]_vars

\* unmarshal of both packages on every document of Documents, and then the
\* arrival rows of the preferred origin as main prints them.
SpecArrivals == InitLink /\ [][unmarshal_call \/ ArrivalMap_call]_vars

\* main up to its call of query.Get, for every combination of flags.
SpecMain == InitMain /\ [][main]_vars

NextChunks ==
    \/ writeUrls_begin
    \/ \E w \in Workers : writeUrls_send(w)
    \/ \E w \in Workers : urls_range(w)

\* writeUrls on its own, never cancelled, its urls received one by one.
SpecChunks == InitChunks /\ [][NextChunks]_vars

----------------------------------------------------------------------------
(* Strict mode: wfs.Query.search *)

\* C1: in strict mode a run in which the fetch or decode of at least one
\* chunk failed (before search returned) returns the nil map together with
\* the error of one of the failed chunks, never a collection.
C1_StrictFailureReturnsNoCollection ==
    (pkg = "wfs" /\ apc = "returned")
        => /\ failed # {} => (res = NilMap /\ err \in failed)
           /\ failed = {} => (err = nil /\ ~res.nil)

\* search has returned the error of one of two failed chunks.
C1_Witness ==
    /\ pkg = "wfs"
    /\ apc = "returned"
    /\ Cardinality(failed) >= 2
    /\ res = NilMap

----------------------------------------------------------------------------
(* Tolerant mode: quakeml12.Get / seiscompml07.Get *)

EventIds == {eventid[j] : j \in 1..Len(eventid)}

\* What the specification counts as a failure of an identifier: the fetch
\* fails (transport error or a status that is not a success), the document
\* does not decode, or the linker reports one of its four conditions.  An
\* id that does not resolve is no failure.
SpecFails(resp) ==
    \/ resp.transport
    \/ resp.StatusCode \notin 200..299
    \/ ~resp.Body.valid
    \/ resp.Body.content.PreferredOriginID = ""
    \/ resp.Body.content.PreferredMagnitudeID = ""
    \/ Len(resp.Body.content.O) = 0
    \/ IF pkg = "quakeml12" THEN Len(resp.Body.content.M) = 0
       ELSE \A j \in 1..Len(resp.Body.content.O) : Len(resp.Body.content.O[j].M) = 0

\* C2: tolerant Get never fails as a whole and, when it returns, the keys of
\* its collection are exactly the identifiers that did not fail, K - F of
\* them.
C2_TolerantGetReturnsTheSuccesses ==
    XmlPkg =>
        /\ ~panicked
        /\ apc = "returned" =>
              /\ Keys(quakeml) = {id \in EventIds : ~SpecFails(net[id])}
              /\ Cardinality(Keys(quakeml))
                    = Len(eventid) - Cardinality({id \in EventIds : SpecFails(net[id])})

----------------------------------------------------------------------------
(* Fetchers *)

\* C3: in every fetcher a transport error of client.Get leaves the fetcher
\* at its select with a failure result that carries that error; the fetcher
\* does not crash.
C3_TransportErrorIsSurfaced ==
    /\ ~panicked
    /\ \A w \in Workers :
          (wpc[w] = "select" /\ r[w].transport)
              => result[w].err = TransportError(target[w])

NonSuccess(resp) == ~resp.transport /\ resp.StatusCode \notin 200..299

\* C4: a response whose status is not a success becomes a failure result
\* that carries nothing parsed from its body, and nothing of its body is in
\* the collection.
C4_NonSuccessIsAFailure ==
    /\ \A w \in Workers :
          (wpc[w] = "select" /\ NonSuccess(r[w]))
              => /\ result[w].err = StatusError(r[w].StatusCode)
                 /\ pkg = "wfs" => result[w].features = <<>>
                 /\ XmlPkg => result[w].event = ZeroEvent
    /\ pkg = "wfs" =>
          \A resp \in WfsResponses :
              NonSuccess(resp) =>
                  \A j \in 1..Len(resp.Body.Features) :
                      resp.Body.Features[j].Properties.PublicID \notin Keys(res)
    /\ XmlPkg => \A id \in Keys(quakeml) : ~NonSuccess(net[id])

\* A fetcher of wfs holds the result of a 404 whose body is valid JSON with
\* a feature in it.
C4_Witness ==
    \E w \in Workers :
        /\ pkg = "wfs"
        /\ wpc[w] = "select"
        /\ r[w].StatusCode = 404
        /\ r[w].Body.valid
        /\ Len(r[w].Body.Features) > 0
        /\ result[w].err # nil

\* C5: the result channel is closed only after every fetcher has returned,
\* so no fetcher is at its send on a closed channel.
C5_SinkClosedAfterAllWorkers ==
    c = "closed" => \A w \in Workers : wpc[w] = "exit"

\* The channel is closed at the end of a run in which results were sent.
C5_Witness ==
    /\ c = "closed"
    /\ \A w \in Workers : wpc[w] = "exit"
    /\ \/ (pkg = "wfs" /\ Keys(res) # {})
       \/ (XmlPkg /\ Keys(quakeml) # {})

----------------------------------------------------------------------------
(* Cancellation *)

\* The producer hands a target to fetcher w in this step.
HandsTarget(w) == wpc[w] = "recv" /\ wpc'[w] = "get"

\* C6 as stated: once done is closed the producer emits no further target.
C6_NoTargetAfterSignal ==
    [][done => \A w \in Workers : ~HandsTarget(w)]_vars

\* C6 as amended: once done is closed a fetcher that is waiting to receive
\* may still be handed a target, but each fetcher at most one.
C6_AtMostOneTargetPerWorkerAfterSignal ==
    \A w \in Workers : emitted[w] <= 1

\* A fetcher was handed a target after done was closed.
C6_Witness ==
    \E w \in Workers : done /\ emitted[w] = 1 /\ wpc[w] = "get"

\* C7 as stated: once done is closed a fetcher passes at most one
\* suspension point (a receive or a network wait) before it returns.
C7_OneSuspensionPointAfterSignal ==
    \A w \in Workers : after[w] <= 1

\* C7 as amended: once done is closed a fetcher passes at most two
\* suspension points, one receive and one network wait, and when it leaves
\* its select it returns: it emits no result and takes no further target.
C7_ReturnsAtNextEmitAfterSignal ==
    [][\A w \in Workers :
          /\ after'[w] <= 2
          /\ (done /\ wpc[w] = "select" /\ wpc'[w] # "select")
                => (wpc'[w] = "exit" /\ res' = res /\ quakeml' = quakeml)]_vars

\* A fetcher received a target and finished its retrieval after done was
\* closed, then returned.
C7_Witness ==
    \E w \in Workers : after[w] = 2 /\ wpc[w] = "exit"

Aborted == pkg = "wfs" /\ apc = "returned" /\ err # nil

Terminated ==
    /\ ppc = "exit"
    /\ \A w \in Workers : wpc[w] = "exit"
    /\ c = "closed"

\* C8: once search has returned a failure, the producer and every fetcher
\* eventually terminate and the result channel is closed.
C8_NoLeakAfterAbort == Aborted ~> Terminated

\* After an abort everything has terminated, a fetcher among it that was
\* still at work when search returned.
C8_Witness ==
    /\ Aborted
    /\ Terminated
    /\ \E w \in Workers : after[w] >= 1

----------------------------------------------------------------------------
(* Request builder *)

\* C9: for a query with an EventID the request is the base endpoint
\* followed by the one filter publicid=='<EventID>', whatever the other
\* fields are.
C9_IdentifierFilterOnly ==
    (built # "" /\ q.EventID # "")
        => built = wfsUrl \o "&cql_filter=publicid=='" \o q.EventID \o "'"

\* The url of a query that has an identifier, a time range and every filter.
C9_Witness ==
    /\ built # ""
    /\ q.EventID # ""
    /\ q.Start # ZeroTime
    /\ q.MinUsedPhaseCount = 60
    /\ q.MinMagnitude = 61
    /\ q.Bbox # ""

\* The clauses of a time window query in their fixed order, each with the
\* condition under which it is present.
Clauses(query) ==
    << [on |-> TRUE, text |-> "origintime>='" \o Format(query.Start) \o "'"],
       [on |-> TRUE, text |-> "origintime<='" \o Format(query.End) \o "'"],
       [on |-> query.MinUsedPhaseCount # -999,
        text |-> "usedphasecount>=" \o ToString(query.MinUsedPhaseCount)],
       [on |-> query.MinMagnitude # -9999,
        text |-> "magnitude>=" \o FormatTenths(query.MinMagnitude)],
       [on |-> query.Bbox # "",
        text |-> "BBOX(origin_geom," \o query.Bbox \o ")"] >>

IsOn(clause) == clause.on

RECURSIVE JoinAnd(_)
JoinAnd(clauses) ==
    IF Len(clauses) = 1 THEN clauses[1].text
    ELSE clauses[1].text \o "+AND+" \o JoinAnd(Tail(clauses))

\* C10: for a query without an EventID the filter is the clauses that are
\* present, in the fixed order, joined by +AND+.
C10_TimeWindowClauses ==
    (built # "" /\ q.EventID = "")
        => built = wfsUrl \o "&cql_filter=" \o JoinAnd(SelectSeq(Clauses(q), IsOn))

\* The url of a time window query without a phase count filter, with a
\* magnitude filter and a bounding box.
C10_Witness ==
    /\ built # ""
    /\ q.EventID = ""
    /\ q.MinUsedPhaseCount = UnsetPhaseCount
    /\ q.MinMagnitude = 61
    /\ q.Bbox # ""

----------------------------------------------------------------------------
(* Range chunker: writeUrls *)

\* writeUrls has returned after its last send.
ChunkerDone == pkg = "writeUrls" /\ ppc = "exit"

\* C11 as stated: the chunks are [Start + k years, Start + (k+1) years] for
\* k < Y, the years added to Start in one go, then [Start + Y years, End].
C11_ChunksAtYearsFromStart ==
    ChunkerDone =>
        sent = [k \in 1..(Years + 1) |->
                  <<AddDate(q.Start, k - 1, 0, 0),
                    IF k <= Years THEN AddDate(q.Start, k, 0, 0) ELSE q.End>>]

\* The k-th boundary of the chunks: one year added to the boundary before
\* it, k times, each sum brought back to a date of the calendar.
RECURSIVE Boundary(_, _)
Boundary(t, k) == IF k = 0 THEN t ELSE AddDate(Boundary(t, k - 1), 1, 0, 0)

\* C11 as amended: Y + 1 chunks, the boundary after a chunk being the
\* boundary before it plus one year, and the last chunk ending at End.
C11_ChunksAtRepeatedYears ==
    ChunkerDone =>
        sent = [k \in 1..(Years + 1) |->
                  <<Boundary(q.Start, k - 1),
                    IF k <= Years THEN Boundary(q.Start, k) ELSE q.End>>]

\* writeUrls has sent the five chunks of a window that starts on 29
\* February 2012 and ends in 2016.
C11_Witness ==
    /\ ChunkerDone
    /\ q.Start = Time(2012, 2, 29, 11185, 0)
    /\ Years = 4
    /\ Len(sent) = 5

\* The instants of two chunks, one sent after the other, that are in both:
\* exactly the instant where the first ends and the second starts.
OneInstantInCommon(c1, c2) ==
    /\ c1[2] = c2[1]
    /\ NotAfter(c1[1], c1[2])
    /\ NotAfter(c2[1], c2[2])

\* C12: each chunk ends where the next one starts, the two have exactly
\* that instant in common, and the chunks lie between Start and End.
C12_AdjacentChunksShareOneInstant ==
    /\ \A k \in 1..(Len(sent) - 1) : OneInstantInCommon(sent[k], sent[k + 1])
    /\ ChunkerDone => (sent[1][1] = q.Start /\ sent[Len(sent)][2] = q.End)

----------------------------------------------------------------------------
(* Entity linker: init, reached through unmarshal *)

\* unmarshal has returned or panicked on a document that xml.Unmarshal accepts.
Linked == pkg \in {"quakeml12.unmarshal", "seiscompml07.unmarshal"}
              /\ linked # <<>> /\ doc.valid

\* The magnitudes the document holds for the dialect: the magnitude
\* elements of the event in QuakeML, those of the origins in SeisCompML.
DocMagnitudes ==
    IF pkg = "quakeml12.unmarshal" THEN doc.content.M ELSE Flatten(doc.content.O)

\* The four conditions in the order of the specification, as the first one
\* the document violates, nil if it violates none.
FirstCondition ==
    IF doc.content.PreferredOriginID = "" THEN "Empty PreferredOriginID"
    ELSE IF doc.content.PreferredMagnitudeID = "" THEN "Empty PreferredMagnitudeID"
    ELSE IF Len(doc.content.O) = 0 THEN "Found no origins"
    ELSE IF Len(DocMagnitudes) = 0 THEN "Found no magnitudes"
    ELSE nil

\* C13: a document that violates one of the four conditions fails with the
\* first condition it violates, in both dialects, and none of the
\* relationships of its event is set.
C13_FirstViolatedConditionIsReported ==
    (Linked /\ FirstCondition # nil)
        => /\ ~linked[1].panic
           /\ linked[1].err = FirstCondition
           /\ linked[1].event.PreferredOrigin = 0
           /\ linked[1].event.PreferredMagnitude = 0
           /\ linked[1].event.Origins = NilMap

\* A QuakeML document without a preferred-magnitude id, without origins and
\* without magnitudes has failed with the first of the three.
C13_Witness ==
    /\ Linked
    /\ pkg = "quakeml12.unmarshal"
    /\ doc.content.PreferredOriginID # ""
    /\ doc.content.PreferredMagnitudeID = ""
    /\ Len(doc.content.O) = 0
    /\ Len(doc.content.M) = 0
    /\ linked[1].err = "Empty PreferredMagnitudeID"

\* C14: a preferred-origin id that is the id of no origin, in a document
\* with origins and magnitudes, links without error and without panic and
\* leaves PreferredOrigin nil.
C14_DanglingPreferredOriginIsAbsent ==
    (/\ Linked
     /\ FirstCondition = nil
     /\ \A j \in 1..Len(doc.content.O) :
            doc.content.O[j].PublicID # doc.content.PreferredOriginID)
        => /\ ~linked[1].panic
           /\ linked[1].err = nil
           /\ linked[1].event.PreferredOrigin = 0

\* init returned without error.
LinkedOk == Linked /\ ~linked[1].panic /\ linked[1].err = nil

\* The arrivals of the preferred origin of the linked event.
PreferredArrivals == linked[1].event.O[linked[1].event.PreferredOrigin].Arrivals

\* C15: after a successful link every arrival of the preferred origin whose
\* PickID is the id of a pick points to the pick the pick map holds for
\* that id, and every other arrival has a nil Pick.
C15_ArrivalsResolveToTheirPicks ==
    LinkedOk =>
        \A j \in 1..Len(PreferredArrivals) :
            LET arr == PreferredArrivals[j]
                P == linked[1].event.P
            IN  IF \E h \in 1..Len(P) : P[h].PublicID = arr.PickID
                THEN /\ arr.Pick \in 1..Len(P)
                     /\ P[arr.Pick].PublicID = arr.PickID
                     /\ arr.Pick = linked[1].event.Picks.m[arr.PickID]
                ELSE arr.Pick = 0

\* A linked document whose preferred origin has an arrival that resolves
\* to a pick which is not the first of the document, and one that does not.
C15_Witness ==
    /\ LinkedOk
    /\ \E j \in 1..Len(PreferredArrivals) : PreferredArrivals[j].Pick > 1
    /\ \E j \in 1..Len(PreferredArrivals) : PreferredArrivals[j].Pick = 0

\* C16: an event that unmarshal returns without error has its preferred
\* origin and preferred magnitude among its origins and magnitudes, and has
\* at least one of each.
C16_ReturnedDocumentIsValid ==
    LinkedOk
        => /\ linked[1].event.PreferredOrigin \in 1..Len(linked[1].event.O)
           /\ linked[1].event.PreferredMagnitude \in 1..Len(linked[1].event.M)
           /\ Len(linked[1].event.O) >= 1
           /\ Len(linked[1].event.M) >= 1

----------------------------------------------------------------------------
(* Aggregation *)

\* search receives the result of fetcher w in this step.
Receives(w) == apc = "range" /\ wpc[w] = "select" /\ wpc'[w] = "recv"

\* C17: when search returns without error the keys of its map are exactly
\* the public ids of the features of all the responses, and every result
\* it receives puts each of its features under its public id, in place of
\* what was there, and leaves the other entries as they were.
C17_MergeKeepsTheLaterFeature ==
    /\ [](pkg = "wfs" /\ apc = "returned" /\ err = nil
             => ~res.nil /\ Keys(res) = fetched)
    /\ [][\A w \in Workers :
            (pkg = "wfs" /\ Receives(w) /\ result[w].err = nil)
                => LET fs == result[w].features
                   IN  /\ Keys(res') = Keys(res) \cup PublicIDs(fs)
                       /\ \A j \in 1..Len(fs) :
                             (\A h \in (j + 1)..Len(fs) :
                                  fs[h].Properties.PublicID # fs[j].Properties.PublicID)
                                 => res'.m[fs[j].Properties.PublicID] = fs[j]
                       /\ \A id \in Keys(res) \ PublicIDs(fs) :
                             res'.m[id] = res.m[id]]_vars

\* search has returned a map in which 2014p1 has the magnitude of the
\* response that holds 2014p1 alone, received after the response that holds
\* 2014p1 with another magnitude together with 2014p2.
C17_Witness ==
    /\ pkg = "wfs"
    /\ apc = "returned"
    /\ err = nil
    /\ Keys(res) = {"2014p1", "2014p2"}
    /\ res.m["2014p1"] = Feature("2014p1", 41)

\* The flags of main name an eventid together with another search criterion.
BothModes ==
    /\ flag.eventid # ""
    /\ \/ flag.start # ""
       \/ flag.end # ""
       \/ flag.minUsedPhaseCount # UnsetPhaseCount
       \/ flag.minMagnitude # UnsetMagnitude
       \/ flag.bbox # ""

\* C18: main does not go on to query.Get when an eventid is given together
\* with a time range or another search criterion.
C18_ModesAreExclusive ==
    (pkg = "main" /\ BothModes) => mpc # "get"

\* The collection Get returns when each id is fetched, decoded and linked
\* on its own: the events of the ids for which that gives no error.
Collection ==
    LET ok == {id \in {eventid[j] : j \in 1..Len(eventid)} :
                 /\ ~xml_fetch(pkg, id, net[id]).panic
                 /\ xml_fetch(pkg, id, net[id]).result.err = nil}
    IN  [nil |-> FALSE, m |-> [id \in ok |-> xml_fetch(pkg, id, net[id]).result.event]]

\* C19: whatever the interleaving, when Get returns its collection is the
\* one given by the ids and what the server answers for each of them.
C19_ResultIsIndependentOfScheduling ==
    (XmlPkg /\ apc = "returned") => quakeml = Collection

\* Get has returned for two ids, one of which failed.
C19_Witness ==
    /\ XmlPkg
    /\ apc = "returned"
    /\ Len(eventid) = 2
    /\ Cardinality(Keys(quakeml)) = 1

\* C20: in strict mode done is closed exactly when search has returned; the
\* step that receives a failure result is the return, with that error; and
\* once search has returned no result is received.
C20_FirstFailureEndsConsumption ==
    /\ [](pkg = "wfs" => (done <=> apc = "returned"))
    /\ [][\A w \in Workers :
            /\ (pkg = "wfs" /\ Receives(w) /\ result[w].err # nil)
                  => (apc' = "returned" /\ done' /\ err' = result[w].err)
            /\ (pkg = "wfs" /\ apc = "returned")
                  => (~(wpc[w] = "select" /\ wpc'[w] = "recv")
                      /\ res' = res /\ err' = err)]_vars

\* search has returned a failure while another fetcher holds a result that
\* nobody will receive.
C20_Witness ==
    /\ pkg = "wfs"
    /\ apc = "returned"
    /\ err # nil
    /\ done
    /\ \E w \in Workers : wpc[w] = "select"

----------------------------------------------------------------------------
(* Worker pool *)

\* The targets the producer has sent so far, by position: the urls of the
\* chunks in wfs, the first i event ids in the XML clients.
SentTargets ==
    IF pkg = "wfs"
    THEN [k \in 1..Len(sent) |-> url([q EXCEPT !.Start = sent[k][1], !.End = sent[k][2]])]
    ELSE [k \in 1..i |-> eventid[k]]

\* How often target t was sent, and how many fetchers hold it.
TimesSent(t) == Cardinality({k \in 1..Len(SentTargets) : SentTargets[k] = t})
Holding(t) == Cardinality({w \in Workers : wpc[w] \in {"get", "select"} /\ target[w] = t})

\* C21: while done is open, no more than numDownloaders targets are with
\* the fetchers, and every target sent is either held by exactly as many
\* fetchers as have not yet delivered it or was received as a result by
\* search / Get: sent = received + held, for every target.
C21_PoolBoundAndExactlyOnce ==
    (pkg \in {"wfs", "quakeml12", "seiscompml07"} /\ ~done)
        => /\ Len(SentTargets) - BagCardinality(received) <= numDownloaders
           /\ \A t \in ({SentTargets[k] : k \in 1..Len(SentTargets)}
                         \cup BagToSet(received)
                         \cup {target[w] : w \in Workers}) \ {""} :
                 TimesSent(t) = CopiesIn(t, received) + Holding(t)

\* A result has been received and every fetcher holds a further target.
C21_Witness ==
    /\ pkg \in {"wfs", "quakeml12", "seiscompml07"}
    /\ ~done
    /\ BagCardinality(received) >= 1
    /\ Len(SentTargets) = BagCardinality(received) + numDownloaders
    /\ \A w \in Workers : wpc[w] \in {"get", "select"}

----------------------------------------------------------------------------
(* Entity linker: references that do not resolve, nested magnitudes *)

\* The server answers with a document that is complete, whose preferred
\* origin is one of its origins and whose preferred-magnitude id is the id
\* of none of its magnitudes (at event level and under the origins alike).
DanglingMagnitude(resp) ==
    /\ ~resp.transport /\ resp.StatusCode = 200 /\ resp.Body.valid
    /\ resp.Body.content.PreferredMagnitudeID # ""
    /\ \E j \in 1..Len(resp.Body.content.O) :
          resp.Body.content.O[j].PublicID = resp.Body.content.PreferredOriginID
    /\ Len(resp.Body.content.M) > 0
    /\ Len(Flatten(resp.Body.content.O)) > 0
    /\ \A j \in 1..Len(resp.Body.content.M) :
          resp.Body.content.M[j].PublicID # resp.Body.content.PreferredMagnitudeID
    /\ \A j \in 1..Len(Flatten(resp.Body.content.O)) :
          Flatten(resp.Body.content.O)[j].PublicID # resp.Body.content.PreferredMagnitudeID

\* C22: a document whose preferred-magnitude id matches no magnitude gives
\* a result without error whose event has a nil PreferredMagnitude, and
\* when Get returns that event is in the collection under its id.
C22_DanglingPreferredMagnitudeIsStored ==
    XmlPkg =>
        /\ \A w \in Workers :
              (wpc[w] = "select" /\ DanglingMagnitude(r[w]))
                  => /\ result[w].err = nil
                     /\ result[w].event.PreferredMagnitude = 0
                     /\ result[w].event.PreferredOrigin # 0
        /\ apc = "returned" =>
              \A j \in 1..Len(eventid) :
                  DanglingMagnitude(net[eventid[j]])
                      => /\ eventid[j] \in Keys(quakeml)
                         /\ quakeml.m[eventid[j]].PreferredMagnitude = 0

\* Get has returned a collection that holds an event without preferred
\* magnitude.
C22_Witness ==
    /\ XmlPkg
    /\ apc = "returned"
    /\ \E j \in 1..Len(eventid) :
          /\ DanglingMagnitude(net[eventid[j]])
          /\ eventid[j] \in Keys(quakeml)
          /\ quakeml.m[eventid[j]].PreferredMagnitude = 0

\* The number of magnitudes nested under the origins before origin j.
RECURSIVE Offset(_, _)
Offset(origins, j) ==
    IF j <= 1 THEN 0 ELSE Offset(origins, j - 1) + Len(origins[j - 1].M)

\* init of seiscompml07 got past the test for origins.
PastNoOrigins ==
    /\ Linked
    /\ pkg = "seiscompml07.unmarshal"
    /\ doc.content.PreferredOriginID # ""
    /\ doc.content.PreferredMagnitudeID # ""
    /\ Len(doc.content.O) > 0

\* C23: in SeisCompML the M of the event is the magnitudes nested under
\* every origin, origin after origin and in the order they have under
\* their origin, and init fails with "Found no magnitudes" exactly when no
\* origin carries a magnitude; a document without origins fails with
\* "Found no origins" whatever magnitudes there are.
C23_NestedMagnitudesAreFlattened ==
    /\ PastNoOrigins =>
          /\ Len(linked[1].event.M) = Offset(doc.content.O, Len(doc.content.O) + 1)
          /\ \A j \in 1..Len(doc.content.O) :
                \A h \in 1..Len(doc.content.O[j].M) :
                    linked[1].event.M[Offset(doc.content.O, j) + h] = doc.content.O[j].M[h]
          /\ (linked[1].err = "Found no magnitudes")
                <=> (\A j \in 1..Len(doc.content.O) : Len(doc.content.O[j].M) = 0)
    /\ (/\ Linked
        /\ pkg = "seiscompml07.unmarshal"
        /\ doc.content.PreferredOriginID # ""
        /\ doc.content.PreferredMagnitudeID # ""
        /\ Len(doc.content.O) = 0)
           => linked[1].err = "Found no origins"

\* A document whose first origin has no magnitude and whose second origin,
\* not the preferred one, has two: both are in M and init did not fail.
C23_Witness ==
    /\ PastNoOrigins
    /\ doc.content.PreferredOriginID = doc.content.O[1].PublicID
    /\ Len(doc.content.O[1].M) = 0
    /\ Len(doc.content.O) = 2
    /\ Len(doc.content.O[2].M) = 2
    /\ linked[1].err = nil
    /\ linked[1].event.M = doc.content.O[2].M

\* The message of one of the four conditions of init.
LinkerConditions ==
    {"Empty PreferredOriginID", "Empty PreferredMagnitudeID",
     "Found no origins", "Found no magnitudes"}

\* unmarshal has returned, on whatever document.
Unmarshalled ==
    pkg \in {"quakeml12.unmarshal", "seiscompml07.unmarshal"} /\ linked # <<>>

\* C24: a document that does not decode gives the decoder's error, and init
\* does not run on it: no condition of init is reported, nothing is linked
\* and nothing panics; one of the four conditions is reported for decoded
\* documents only.
C24_DecodeFailureIsNotALinkerCondition ==
    Unmarshalled =>
        /\ ~doc.valid =>
              /\ linked[1].err = XmlError
              /\ ~linked[1].panic
              /\ linked[1].event = ZeroEvent
        /\ linked[1].err \in LinkerConditions => doc.valid

\* A document that does not decode and whose content has no preferred
\* origin id: the error is the decoder's.
C24_Witness ==
    /\ Unmarshalled
    /\ ~doc.valid
    /\ doc.content.PreferredOriginID = ""
    /\ linked[1].err = XmlError

----------------------------------------------------------------------------
(* Range chunker: what the sub-queries keep, where they lie, identifiers *)

\* The producer sends a url in this step.
Sends == Len(sent') = Len(sent) + 1

\* C25: the sub-query of writeUrls has the EventID, MinUsedPhaseCount,
\* MinMagnitude and Bbox of the query it was called on, every url sent is
\* the url of that query with the Start and End of the chunk in place of
\* its own, and the query of the caller is never changed.
C25_SubQueriesKeepEverythingButTheWindow ==
    /\ [](pkg = "writeUrls" =>
             /\ a.EventID = q.EventID
             /\ a.MinUsedPhaseCount = q.MinUsedPhaseCount
             /\ a.MinMagnitude = q.MinMagnitude
             /\ a.Bbox = q.Bbox)
    /\ [][/\ q' = q
          /\ (pkg = "writeUrls" /\ Sends) =>
                \E w \in Workers :
                    /\ wpc[w] = "recv" /\ wpc'[w] = "get"
                    /\ target'[w] = url(Query(q.EventID,
                                              sent'[Len(sent')][1], sent'[Len(sent')][2],
                                              q.MinUsedPhaseCount, q.MinMagnitude, q.Bbox))]_vars

\* writeUrls has sent the chunks of a window over three years or more of a
\* query with every filter set; its last sub-query starts later than the
\* query and has the filters of the query.
C25_Witness ==
    /\ ChunkerDone
    /\ Len(sent) >= 3
    /\ q.EventID = ""
    /\ q.MinUsedPhaseCount = 60 /\ q.MinMagnitude = 61 /\ q.Bbox # ""
    /\ a.Start # q.Start
    /\ a.Bbox = q.Bbox

\* C28: every chunk sent has its start not after its end and lies between
\* the Start and the End of the query.
C28_ChunksAreWellFormed ==
    pkg = "writeUrls" =>
        \A k \in 1..Len(sent) :
            /\ NotAfter(sent[k][1], sent[k][2])
            /\ NotAfter(q.Start, sent[k][1])
            /\ NotAfter(sent[k][2], q.End)

\* C29: for a query with an EventID writeUrls sends exactly one url,
\* whatever Start and End are.
C29_IdentifierGivesOneTarget ==
    (pkg = "writeUrls" /\ q.EventID # "")
        => /\ Len(sent) <= 1
           /\ ChunkerDone => Len(sent) = 1

----------------------------------------------------------------------------
(* Entity linker: the two dialects *)

\* The document has the same magnitudes at event level as under its
\* origins, so that it reads as the same content in both dialects.
SameFlatContent ==
    /\ Len(doc.content.M) = Len(Flatten(doc.content.O))
    /\ {doc.content.M[j] : j \in 1..Len(doc.content.M)}
          = {Flatten(doc.content.O)[j] : j \in 1..Len(doc.content.M)}

\* unmarshal of the other package on the same document.
OtherDialect ==
    xml_unmarshal(IF pkg = "quakeml12.unmarshal" THEN "seiscompml07" ELSE "quakeml12", doc)

\* The id of what a reference of an event points to, "" for nil.
RefID(seq, ref) == IF ref = 0 THEN "" ELSE seq[ref].PublicID

\* C26: on a document with the same content in both dialects quakeml12 and
\* seiscompml07 agree: both panic, or both fail with the same condition, or
\* both give an event with the same keys in Origins, Magnitudes and Picks,
\* the same preferred origin and magnitude and the same pick for every
\* arrival of the preferred origin.
C26_LinkersAgree ==
    (Linked /\ SameFlatContent) =>
        LET mine == linked[1]
            other == OtherDialect
        IN  /\ mine.panic = other.panic
            /\ mine.err = other.err
            /\ (~mine.panic /\ mine.err = nil) =>
                  /\ Keys(mine.event.Origins) = Keys(other.event.Origins)
                  /\ Keys(mine.event.Magnitudes) = Keys(other.event.Magnitudes)
                  /\ Keys(mine.event.Picks) = Keys(other.event.Picks)
                  /\ RefID(mine.event.O, mine.event.PreferredOrigin)
                        = RefID(other.event.O, other.event.PreferredOrigin)
                  /\ RefID(mine.event.M, mine.event.PreferredMagnitude)
                        = RefID(other.event.M, other.event.PreferredMagnitude)
                  /\ LET arrs == mine.event.O[mine.event.PreferredOrigin].Arrivals
                         others == other.event.O[other.event.PreferredOrigin].Arrivals
                     IN  /\ Len(arrs) = Len(others)
                         /\ \A j \in 1..Len(arrs) :
                               /\ arrs[j].PickID = others[j].PickID
                               /\ RefID(mine.event.P, arrs[j].Pick)
                                     = RefID(other.event.P, others[j].Pick)

\* A SeisCompML document linked without error, its magnitudes under the
\* origins in another order than at event level, with an arrival that
\* resolves and a preferred magnitude that is set.
C26_Witness ==
    /\ LinkedOk
    /\ pkg = "seiscompml07.unmarshal"
    /\ SameFlatContent
    /\ doc.content.M # Flatten(doc.content.O)
    /\ linked[1].event.PreferredMagnitude # 0
    /\ \E j \in 1..Len(PreferredArrivals) : PreferredArrivals[j].Pick # 0

----------------------------------------------------------------------------
(* Tolerant mode: termination, no result lost *)

\* C27: under fair scheduling, and every client.Get returning, Get
\* returns for every list of ids and every mix of answers, with the
\* producer and every fetcher returned and the result channel closed.
C27_TolerantGetTerminates ==
    XmlPkg ~> (apc = "returned" /\ Terminated)

\* What holds of the fair runs: Get returns as C27 says, or a fetcher has
\* panicked.
C27_TerminatesUnlessPanicked ==
    XmlPkg ~> (panicked \/ (apc = "returned" /\ Terminated))

\* C30: in the XML clients done is closed only once the result channel is
\* closed and every fetcher has returned, no fetcher leaves its select by
\* the case <-done, and when Get returns it has received exactly one
\* result for every id of its list.
C30_NoResultIsDiscarded ==
    /\ [](XmlPkg =>
             /\ done => (c = "closed" /\ \A w \in Workers : wpc[w] = "exit")
             /\ apc = "returned" =>
                   /\ BagCardinality(received) = Len(eventid)
                   /\ \A j \in 1..Len(eventid) : CopiesIn(eventid[j], received) = 1)
    /\ [][XmlPkg => \A w \in Workers :
                        /\ ~(wpc[w] = "select" /\ wpc'[w] = "exit")
                        /\ (wpc[w] = "select" /\ wpc'[w] # "select")
                              => CopiesIn(target[w], received') = 1]_vars

\* Get has returned for a full list of ids, a failure among them, after it
\* received a result for each.
C30_Witness ==
    /\ XmlPkg
    /\ apc = "returned"
    /\ done
    /\ Len(eventid) = MaxIds
    /\ BagCardinality(received) = MaxIds
    /\ Cardinality(Keys(quakeml)) < MaxIds

----------------------------------------------------------------------------
(* Tolerant mode: what is stored under a key *)

\* What unmarshal gives for the answer of the server to id.
Parsed(id) == xml_unmarshal(pkg, net[id].Body)

\* The answer to id is read, has status 200, decodes and links.
Succeeds(id) ==
    /\ ~net[id].transport /\ ~net[id].readErr
    /\ net[id].StatusCode = 200
    /\ ~Parsed(id).panic
    /\ Parsed(id).err = nil

\* C31: every entry of the collection of Get is under the id of a target
\* whose own answer was fetched, decoded and linked without error, and is
\* the event of that answer; the collection changes only when Get receives
\* a result without error, by that result's event under that result's
\* target; a result with an error, whatever event it carries, changes
\* nothing.
C31_EntriesComeFromTheirOwnResponse ==
    /\ [](XmlPkg =>
             \A k \in Keys(quakeml) :
                 /\ k \in EventIds
                 /\ Succeeds(k)
                 /\ quakeml.m[k] = Parsed(k).event)
    /\ [][XmlPkg =>
             /\ quakeml' # quakeml =>
                   \E w \in Workers : Receives(w) /\ result[w].err = nil
             /\ \A w \in Workers :
                   Receives(w) =>
                       IF result[w].err # nil
                       THEN quakeml' = quakeml
                       ELSE /\ Keys(quakeml') = Keys(quakeml) \cup {target[w]}
                            /\ quakeml'.m[target[w]] = Parsed(target[w]).event
                            /\ \A k \in Keys(quakeml) \ {target[w]} :
                                  quakeml'.m[k] = quakeml.m[k]]_vars

\* Get has returned a collection with the event of one id and without the
\* other id, whose answer decoded into an event that init rejected.
C31_Witness ==
    /\ XmlPkg
    /\ apc = "returned"
    /\ \E k \in EventIds : k \in Keys(quakeml)
    /\ \E k \in EventIds :
          /\ k \notin Keys(quakeml)
          /\ net[k].StatusCode = 200 /\ net[k].Body.valid
          /\ Parsed(k).err # nil
          /\ Parsed(k).event # ZeroEvent

----------------------------------------------------------------------------
(* Arrival output *)

\* C32: for every event that unmarshal returned without error, ArrivalMap
\* on its preferred origin returns, with one row for each arrival of the
\* preferred origin, whether the arrival's pick resolved or not.
C32_ArrivalMapIsTotal ==
    (pkg = "quakeml12.unmarshal" /\ amap # <<>>)
        => /\ ~amap[1].panic
           /\ Len(amap[1].m) = Len(PreferredArrivals)

----------------------------------------------------------------------------
(* Entity linker: what linking leaves alone *)

\* The origins of the linked event as they were decoded: without the Pick
\* of their arrivals.
Decoded(origin) ==
    [origin EXCEPT !.Arrivals = [j \in 1..Len(origin.Arrivals) |->
                                    [origin.Arrivals[j] EXCEPT !.Pick = 0]]]

\* C33: after a link without error every arrival of an origin that is not
\* the preferred one has a nil Pick, also when its PickID is a key of
\* Picks, and the origins (the Pick of the preferred origin's arrivals
\* aside), the magnitudes and the picks of the event are those of the
\* document.
C33_OnlyPreferredArrivalsAreLinked ==
    LinkedOk =>
        LET e == linked[1].event
        IN  /\ \A o \in 1..Len(e.O) :
                  o # e.PreferredOrigin =>
                      \A j \in 1..Len(e.O[o].Arrivals) : e.O[o].Arrivals[j].Pick = 0
            /\ Len(e.O) = Len(doc.content.O)
            /\ \A o \in 1..Len(e.O) :
                  /\ e.O[o].PublicID = doc.content.O[o].PublicID
                  /\ Decoded(e.O[o]).Arrivals = doc.content.O[o].Arrivals
                  /\ pkg = "seiscompml07.unmarshal" => e.O[o].M = doc.content.O[o].M
            /\ e.M = DocMagnitudes
            /\ e.P = doc.content.P

\* A linked event with an origin that is not the preferred one and has an
\* arrival whose PickID is a key of Picks: its Pick is nil, while an
\* arrival of the preferred origin with the same PickID has its pick.
C33_Witness ==
    /\ LinkedOk
    /\ \E o \in 1..Len(linked[1].event.O) :
          /\ o # linked[1].event.PreferredOrigin
          /\ \E j \in 1..Len(linked[1].event.O[o].Arrivals) :
                /\ linked[1].event.O[o].Arrivals[j].PickID \in Keys(linked[1].event.Picks)
                /\ linked[1].event.O[o].Arrivals[j].Pick = 0
                /\ \E h \in 1..Len(PreferredArrivals) :
                      /\ PreferredArrivals[h].PickID = linked[1].event.O[o].Arrivals[j].PickID
                      /\ PreferredArrivals[h].Pick # 0

----------------------------------------------------------------------------
(* qsearch: when main searches *)

\* The flags give a valid eventid, or a start and an end that are times
\* with the start not after the end.
WellFormed ==
    \/ flag.eventid # "" /\ MatchString(flag.eventid)
    \/ /\ flag.start # "" /\ flag.end # ""
       /\ Parse(flag.start).err = nil /\ Parse(flag.end).err = nil
       /\ NotAfter(Parse(flag.start).t, Parse(flag.end).t)

\* C34: main goes on to query.Get, which sends the request, only when the
\* flags give a valid eventid or both a start and an end with the start
\* not after the end.
C34_SearchOnlyForWellFormedQuery ==
    (pkg = "main" /\ mpc = "get") => WellFormed

====
